---- MODULE Spec2Model ----
(***************************************************************************)
(* Model of src/app.py: scan_for_opportunities and get_best_asks of the    *)
(* Polymarket arbitrage dashboard.                                         *)
(*                                                                         *)
(* Prices and thresholds are integers in cents / percent points            *)
(* (0.45 is 45, a threshold of 0.02 is 2), so "Profit %" = profit * 100    *)
(* is 100 - cost.  Texts are sequences of one-character strings so that    *)
(* str.lower(), the substring test and ", ".join are computed.             *)
(* One scan is split into steps at its order-book lookups, between which   *)
(* the venue may fill asks.                                                *)
(***************************************************************************)
EXTENDS Integers, Sequences, FiniteSets, TLC

\* ------------------------------------------------------------------ bounds
MaxMarkets == 3
MaxFills == 1

\* ------------------------------------------------------- program constants
MatchFloor == 75
Limit == 5
TokenCount == 2
HttpOk == 200

\* --------------------------------------------------------------- text model
UpperChars == <<"A","B","C","D","E","F","G","H","I","J","K","L","M",
                "N","O","P","Q","R","S","T","U","V","W","X","Y","Z">>
LowerChars == <<"a","b","c","d","e","f","g","h","i","j","k","l","m",
                "n","o","p","q","r","s","t","u","v","w","x","y","z">>

UpperSet == {UpperChars[k] : k \in 1..Len(UpperChars)}

\* the lower-case letter of every upper-case letter
LowerOf ==
  [c \in UpperSet |-> LowerChars[CHOOSE k \in 1..Len(UpperChars) : UpperChars[k] = c]]

lower_char(c) == IF c \in UpperSet THEN LowerOf[c] ELSE c

\* str.lower(), letter by letter
lower_each(s) == [k \in 1..Len(s) |-> lower_char(s[k])]

\* the Python test  w in q  on strings
contains(q, w) ==
  \E s \in 0..(Len(q) - Len(w)) : SubSeq(q, s + 1, s + Len(w)) = w

RECURSIVE join(_)
\* ", ".join(words)
join(words) ==
  IF Len(words) = 0 THEN <<>>
  ELSE IF Len(words) = 1 THEN words[1]
  ELSE words[1] \o <<",", " ">> \o join(Tail(words))

RECURSIVE words_in(_, _)
\* [word for word in words if word in q]
words_in(words, q) ==
  IF Len(words) = 0 THEN <<>>
  ELSE (IF contains(q, words[1]) THEN <<words[1]>> ELSE <<>>)
       \o words_in(Tail(words), q)

\* question texts of the modelled market list
Q_IfX == <<"I","f"," ","x">>
Q_ifx == <<"i","f"," ","x">>
Q_xify == <<"x"," ","i","f"," ","y">>
Q_or == <<"o","r">>

\* str.lower(): the lower-cased question texts are computed once
QuestionTexts == {Q_IfX, Q_ifx, Q_xify, Q_or}
LowerQuestion == [t \in QuestionTexts |-> lower_each(t)]
lower(s) == IF s \in QuestionTexts THEN LowerQuestion[s] ELSE lower_each(s)

\* keywords
K_if == <<"i","f">>
K_by == <<"b","y">>
K_or == <<"o","r">>
K_unless == <<"u","n","l","e","s","s">>
K_before == <<"b","e","f","o","r","e">>
K_IF == <<"I","F">>
K_x == <<"x">>
K_y == <<"y">>

\* fuzz.token_sort_ratio after full_process: the library lower-cases both
\* strings, sorts their tokens and returns round(100 * 2M/T).  For the
\* modelled texts: equal lower-cased text 100; "if x" ~ "if x y" 80;
\* "or" against the others 0.
token_sort_ratio(s1, s2) ==
  IF lower(s1) = lower(s2) THEN 100
  ELSE IF lower(s1) = Q_or \/ lower(s2) = Q_or THEN 0
  ELSE 80

\* ------------------------------------------------------------- raw records
\* an optional dictionary key
Absent == [has |-> FALSE, text |-> <<>>]
Text(t) == [has |-> TRUE, text |-> t]

\* clobTokenIds: key absent, JSON null, or a list of token ids
ClobAbsent == [kind |-> "absent", ids |-> <<>>]
ClobNull == [kind |-> "null", ids |-> <<>>]
ClobList(ids) == [kind |-> "list", ids |-> ids]

TwoTokens == ClobList(<<"Y", "N">>)
ThreeTokens == ClobList(<<"Y", "N", "Z">>)

\* one token's order book as the CLOB endpoint answers it
Book(status, asks) == [status |-> status, asks |-> asks]
NoBook == [t \in {"Y", "N", "Z"} |-> Book(HttpOk, {})]
Books(yes, no) == [t \in {"Y", "N", "Z"} |->
                     IF t = "Y" THEN yes ELSE IF t = "N" THEN no ELSE Book(HttpOk, {})]

Raw(q, clob, vol) == [question |-> q, clobTokenIds |-> clob, volume |-> vol]

\* the market records a scan is run on, each with the venue's books for its
\* tokens at the start of the scan; a market list names its records by their
\* position here
Catalogue ==
  << [rec |-> Raw(Text(Q_IfX), TwoTokens, 10),
     bk |-> Books(Book(HttpOk, {30, 68}), Book(HttpOk, {65}))],
    [rec |-> Raw(Text(Q_ifx), TwoTokens, 0),
     bk |-> Books(Book(HttpOk, {5}), Book(HttpOk, {95, 99}))],
    [rec |-> Raw(Text(Q_xify), TwoTokens, 7),
     bk |-> Books(Book(HttpOk, {8}), Book(HttpOk, {4}))],
    [rec |-> Raw(Text(Q_xify), TwoTokens, 1),
     bk |-> Books(Book(HttpOk, {97}), Book(HttpOk, {}))],
    [rec |-> Raw(Text(Q_or), TwoTokens, 1),
     bk |-> Books(Book(500, {40}), Book(HttpOk, {40}))],
    [rec |-> Raw(Text(Q_xify), ClobNull, 0), bk |-> NoBook],
    [rec |-> Raw(Text(Q_ifx), ClobAbsent, 3), bk |-> NoBook],
    [rec |-> Raw(Absent, ClobAbsent, 0), bk |-> NoBook],
    [rec |-> Raw(Absent, TwoTokens, 0),
     bk |-> Books(Book(HttpOk, {40}), Book(HttpOk, {40}))],
    [rec |-> Raw(Text(Q_IfX), ThreeTokens, 2), bk |-> NoBook] >>

\* scan_for_opportunities' parameters (the first is the defaults)
Configs ==
  << [spread_threshold |-> 2, combo_threshold |-> 2, near_certain |-> 95,
     rules_keywords |-> <<K_if, K_by, K_or, K_unless, K_before>>],
    [spread_threshold |-> 0, combo_threshold |-> 5, near_certain |-> 92,
     rules_keywords |-> <<K_IF, K_x, K_y>>] >>

\* ------------------------------------------------------------------- state
VARIABLES
  markets,            \* the list of raw records passed to the scan (Catalogue positions)
  config,             \* the thresholds and keywords passed to the scan (Configs position)
  venue,              \* venue[i][token]: current order book of market i's token
  fills,              \* number of asks filled so far
  pc,                 \* "start", "base", "match", "done", "raised"
  idx,                \* position of the for loop over markets
  questions,          \* line 51
  cur,                \* locals of the current iteration
  spread_arbs, combo_arbs, near_certain_opps, rules_arbs,
  lookups             \* the get_best_asks calls made so far and their results (history)

vars == <<markets, config, venue, fills, pc, idx, questions, cur,
          spread_arbs, combo_arbs, near_certain_opps, rules_arbs, lookups>>

\* the i-th raw record of the list, markets[i] in the code
record(i) == Catalogue[markets[i]].rec
records == [i \in 1..Len(markets) |-> record(i)]

\* the parameters of the call
param == Configs[config]

\* the books of market i's tokens when the scan starts
venue0(i) == Catalogue[markets[i]].bk

\* ----------------------------------------------------------- get_best_asks
None == [some |-> FALSE, v |-> 0]
Some(x) == [some |-> TRUE, v |-> x]
NonePair == [yes |-> None, no |-> None]

MinOf(S) == CHOOSE x \in S : \A y \in S : x <= y

get_best_asks_zero(token_ids, bk) ==
  IF Len(token_ids) # TokenCount THEN NonePair
  ELSE LET yes_resp == bk[token_ids[1]]
           no_resp == bk[token_ids[2]]
           best(asks) == IF asks = {} THEN 0 ELSE MinOf(asks)
       IN IF yes_resp.status # HttpOk \/ no_resp.status # HttpOk THEN NonePair
          ELSE [yes |-> Some(best(yes_resp.asks)), no |-> Some(best(no_resp.asks))]

\* lines 27-43
get_best_asks(token_ids, bk) ==
  IF Len(token_ids) # TokenCount THEN NonePair
  ELSE LET yes_resp == bk[token_ids[1]]
           no_resp == bk[token_ids[2]]
       IN IF yes_resp.status # HttpOk \/ no_resp.status # HttpOk THEN NonePair
          ELSE IF yes_resp.asks = {} \/ no_resp.asks = {} THEN NonePair
          ELSE [yes |-> Some(MinOf(yes_resp.asks)), no |-> Some(MinOf(no_resp.asks))]

\* dict.get("clobTokenIds"): None when the key is absent
GetClob(m) == IF m.clobTokenIds.kind = "absent" THEN ClobNull ELSE m.clobTokenIds
\* dict.get("clobTokenIds", []): the empty list when the key is absent
GetClobOrEmpty(m) ==
  IF m.clobTokenIds.kind = "absent" THEN ClobList(<<>>) ELSE m.clobTokenIds
\* Python truthiness of a clobTokenIds value
Truthy(c) == c.kind = "list" /\ Len(c.ids) > 0

\* ------------------------------------------------------------ the scan
RECURSIVE question_list(_)
\* line 51: [m["question"] for m in markets if m.get("clobTokenIds")]
question_list(ms) ==
  IF Len(ms) = 0 THEN <<>>
  ELSE (IF Truthy(GetClob(ms[1])) THEN <<ms[1].question.text>> ELSE <<>>)
       \o question_list(Tail(ms))

\* line 51 raises KeyError on a record with token ids and no "question"
question_list_raises(ms) ==
  \E i \in 1..Len(ms) : Truthy(GetClob(ms[i])) /\ ~ms[i].question.has

\* process.extract(query, choices, limit, scorer): every choice scored
\* against the query, the limit best by score, earlier choices first on ties
extract(query, choices, limit) ==
  LET n == Len(choices)
      score == [k \in 1..n |-> token_sort_ratio(query, choices[k])]
      rank == [k \in 1..n |-> 1 + Cardinality({j \in 1..n :
                       score[j] > score[k] \/ (score[j] = score[k] /\ j < k)})]
      sorted == [r \in 1..n |->
                   LET k == CHOOSE k \in 1..n : rank[k] = r
                   IN [choice |-> choices[k], score |-> score[k]]]
  IN SubSeq(sorted, 1, IF n < limit THEN n ELSE limit)

\* line 86: next(m for m in markets if m["question"].lower() == match_q.lower())
\* the first record that either has no "question" (KeyError) or has the text
next_stop(match_q) ==
  LET wanted == lower(match_q)
      stops == [i \in 1..Len(markets) |->
                  ~record(i).question.has \/ lower(record(i).question.text) = wanted]
  IN { i \in 1..Len(markets) : stops[i] /\ \A j \in 1..(i - 1) : ~stops[j] }

Volume(m) == m.volume

\* lines 69-79
spread_entry(i, question, yes_ask, no_ask) ==
  LET total_cost == yes_ask + no_ask
      profit == 100 - total_cost
  IN [Question |-> question, YES_Ask |-> yes_ask, NO_Ask |-> no_ask,
      Total_Cost |-> total_cost, Profit_pct |-> profit,
      Volume |-> Volume(record(i)), src |-> i]

spread_hit_inclusive(yes_ask, no_ask) ==
  yes_ask + no_ask <= 100 - param.spread_threshold

\* line 70
spread_hit(yes_ask, no_ask) ==
  yes_ask + no_ask < 100 - param.spread_threshold

skip_candidate_keeps_self(score, match_q, question) ==
  score < MatchFloor

\* line 84: the candidate is passed over
skip_candidate(score, match_q, question) ==
  score < MatchFloor \/ lower(match_q) = question

\* lines 83-85: the position of the first candidate from position from on
\* that is not passed over, 0 when the loop over the candidates ends
next_candidate(matches, question, from) ==
  LET kept == { k \in from..Len(matches) :
                  ~skip_candidate(matches[k].score, matches[k].choice, question) }
  IN IF kept = {} THEN 0 ELSE CHOOSE k \in kept : \A j \in kept : k <= j

\* history: get_best_asks was called for market i (as base, line 62, or as
\* linked market, line 87) and returned asks
Lookup(i, role, asks) == [m |-> i, role |-> role, asks |-> asks]

\* line 90
combo_hit(yes_ask, no_ask, linked_yes, linked_no) ==
  \/ yes_ask + linked_no < 100 - param.combo_threshold
  \/ no_ask + linked_yes < 100 - param.combo_threshold

Smaller(a, b) == IF a <= b THEN a ELSE b
Larger(a, b) == IF a >= b THEN a ELSE b

\* line 91: profit = min(1 - (yes_ask + linked_no), 1 - (no_ask + linked_yes))
combo_profit(yes_ask, no_ask, linked_yes, linked_no) ==
  Smaller(100 - (yes_ask + linked_no), 100 - (no_ask + linked_yes))

\* lines 92-97 (base, linked and the four asks are history fields)
combo_entry(i, li, question, score, yes_ask, no_ask, linked_yes, linked_no) ==
  [Base_Question |-> question, Linked_Question |-> record(li).question.text,
   Profit_pct |-> combo_profit(yes_ask, no_ask, linked_yes, linked_no),
   Match_Score |-> score, base |-> i, linked |-> li,
   yes |-> yes_ask, no |-> no_ask, lyes |-> linked_yes, lno |-> linked_no]

near_hit_strict(yes_ask, no_ask) ==
  yes_ask < 100 - param.near_certain \/ no_ask < 100 - param.near_certain

\* line 100
near_hit(yes_ask, no_ask) ==
  yes_ask <= 100 - param.near_certain \/ no_ask <= 100 - param.near_certain

\* lines 101-111
near_entry(i, question, yes_ask, no_ask) ==
  LET cheap_side == IF yes_ask <= 100 - param.near_certain THEN "YES" ELSE "NO"
      cheap_price == IF cheap_side = "YES" THEN yes_ask ELSE no_ask
  IN [Question |-> question, Cheap_Side |-> cheap_side, Price |-> cheap_price,
      Implied_Prob_pct |-> IF cheap_side = "NO" THEN 100 - cheap_price ELSE cheap_price,
      Profit_pct |-> 100 - cheap_price,
      Volume |-> Volume(record(i)), src |-> i, yes |-> yes_ask, no |-> no_ask]

\* line 114
rules_hit(question) ==
  \E k \in 1..Len(param.rules_keywords) : contains(question, param.rules_keywords[k])

\* lines 115-121
rules_entry(i, question, yes_ask, no_ask) ==
  [Question |-> question,
   Potential_Ambiguity |-> join(words_in(param.rules_keywords, question)),
   YES_Ask |-> yes_ask, NO_Ask |-> no_ask,
   Volume |-> Volume(record(i)), src |-> i]

NoLocals == [yes |-> 0, no |-> 0, question |-> <<>>, matches |-> <<>>, k |-> 0]

Init ==
  /\ \E n \in 0..MaxMarkets : markets \in [1..n -> 1..Len(Catalogue)]
  /\ venue = [i \in 1..Len(markets) |-> venue0(i)]
  /\ config \in 1..Len(Configs)
  /\ fills = 0
  /\ pc = "start"
  /\ idx = 0
  /\ questions = <<>>
  /\ cur = NoLocals
  /\ spread_arbs = <<>>
  /\ combo_arbs = <<>>
  /\ near_certain_opps = <<>>
  /\ rules_arbs = <<>>
  /\ lookups = {}

\* the for loop moves to the next record, or the scan returns (lines 123-124)
NextMarket ==
  /\ idx' = idx + 1
  /\ pc' = IF idx = Len(markets) THEN "done" ELSE "base"
  /\ cur' = NoLocals

\* an exception leaves the scan
Raise ==
  /\ pc' = "raised"
  /\ UNCHANGED <<idx, cur, spread_arbs, combo_arbs, near_certain_opps, rules_arbs, lookups>>

\* lines 99-121 for the current market, then the next iteration
Classify34(question, yes_ask, no_ask) ==
  /\ near_certain_opps' =
       IF near_hit(yes_ask, no_ask)
       THEN Append(near_certain_opps, near_entry(idx, question, yes_ask, no_ask))
       ELSE near_certain_opps
  /\ rules_arbs' =
       IF rules_hit(question)
       THEN Append(rules_arbs, rules_entry(idx, question, yes_ask, no_ask))
       ELSE rules_arbs
  /\ NextMarket

\* lines 46-53
Start ==
  /\ pc = "start"
  /\ IF question_list_raises(records)
     THEN /\ pc' = "raised"
          /\ UNCHANGED <<idx, questions>>
     ELSE /\ questions' = question_list(records)
          /\ idx' = 1
          /\ pc' = IF Len(markets) = 0 THEN "done" ELSE "base"
  /\ UNCHANGED <<markets, config, venue, fills, cur,
                 spread_arbs, combo_arbs, near_certain_opps, rules_arbs, lookups>>

\* lines 55-85: one iteration up to the first candidate that is not passed
\* over (and lines 99-121 when there is none)
ScanBase ==
  /\ pc = "base"
  /\ LET market == record(idx)
         clob_ids == GetClob(market)
     IN IF ~Truthy(clob_ids) \/ Len(clob_ids.ids) # TokenCount
        THEN /\ NextMarket
             /\ UNCHANGED <<spread_arbs, combo_arbs, near_certain_opps, rules_arbs, lookups>>
        ELSE
          LET asks == get_best_asks(clob_ids.ids, venue[idx])
          IN IF ~asks.yes.some
             THEN /\ NextMarket
                  /\ lookups' = lookups \cup {Lookup(idx, "base", asks)}
                  /\ UNCHANGED <<spread_arbs, combo_arbs, near_certain_opps, rules_arbs>>
             ELSE IF ~market.question.has
             THEN Raise
             ELSE
               LET yes_ask == asks.yes.v
                   no_ask == asks.no.v
                   question == lower(market.question.text)
                   matches == extract(question, questions, Limit)
               IN /\ spread_arbs' =
                       IF spread_hit(yes_ask, no_ask)
                       THEN Append(spread_arbs, spread_entry(idx, question, yes_ask, no_ask))
                       ELSE spread_arbs
                  /\ lookups' = lookups \cup {Lookup(idx, "base", asks)}
                  /\ combo_arbs' = combo_arbs
                  /\ IF next_candidate(matches, question, 1) = 0
                     THEN Classify34(question, yes_ask, no_ask)
                     ELSE /\ cur' = [yes |-> yes_ask, no |-> no_ask,
                                     question |-> question, matches |-> matches,
                                     k |-> next_candidate(matches, question, 1)]
                          /\ pc' = "match"
                          /\ UNCHANGED <<idx, near_certain_opps, rules_arbs>>
  /\ UNCHANGED <<markets, config, venue, fills, questions>>

\* after candidate cur.k: on to the next candidate that is not passed over,
\* or lines 99-121 after the last
AfterMatch ==
  IF next_candidate(cur.matches, cur.question, cur.k + 1) = 0
  THEN Classify34(cur.question, cur.yes, cur.no)
  ELSE /\ cur' = [cur EXCEPT !.k = next_candidate(cur.matches, cur.question, cur.k + 1)]
       /\ UNCHANGED <<pc, idx, near_certain_opps, rules_arbs>>

\* lines 86-97 for candidate cur.k, then on to the next one
ScanMatch ==
  /\ pc = "match"
  /\ LET match_q == cur.matches[cur.k].choice
         score == cur.matches[cur.k].score
     IN IF next_stop(match_q) = {}
        THEN Raise
        ELSE
          LET li == CHOOSE i \in next_stop(match_q) : TRUE
              linked == record(li)
          IN IF ~linked.question.has \/ GetClobOrEmpty(linked).kind = "null"
             THEN Raise
             ELSE
               LET lasks == get_best_asks(GetClobOrEmpty(linked).ids, venue[li])
               IN IF ~lasks.yes.some
                  THEN /\ AfterMatch
                       /\ combo_arbs' = combo_arbs
                       /\ lookups' = lookups \cup {Lookup(li, "linked", lasks)}
                  ELSE /\ combo_arbs' =
                            IF combo_hit(cur.yes, cur.no, lasks.yes.v, lasks.no.v)
                            THEN Append(combo_arbs,
                                        combo_entry(idx, li, cur.question, score, cur.yes,
                                                    cur.no, lasks.yes.v, lasks.no.v))
                            ELSE combo_arbs
                       /\ lookups' = lookups \cup {Lookup(li, "linked", lasks)}
                       /\ AfterMatch
  /\ UNCHANGED <<markets, config, venue, fills, questions, spread_arbs>>

\* the markets whose books the next step of the scan requests (line 62 for
\* the base market, line 87 for the linked market of the current candidate)
requested_next ==
  IF pc = "base" THEN {idx}
  ELSE IF pc = "match" THEN next_stop(cur.matches[cur.k].choice)
  ELSE {}

\* the venue: the best ask of one token of market i is taken by a trader
\* while the scan is running.  A fill shows in the scan at the next request
\* for that book, so it is taken right before that request.
FillAsk(i, t) ==
  /\ fills < MaxFills
  /\ venue[i][t].asks # {}
  /\ i \in requested_next
  /\ venue' = [venue EXCEPT ![i][t].asks = @ \ {MinOf(@)}]
  /\ fills' = fills + 1
  /\ UNCHANGED <<markets, config, pc, idx, questions, cur,
                 spread_arbs, combo_arbs, near_certain_opps, rules_arbs, lookups>>

Next ==
  \/ Start
  \/ ScanBase
  \/ ScanMatch
  \/ \E i \in 1..Len(markets) : \E t \in {"Y", "N"} : FillAsk(i, t)

Spec == Init /\ [][Next]_vars

TypeOK ==
  /\ pc \in {"start", "base", "match", "done", "raised"}
  /\ idx \in 0..(Len(markets) + 1)
  /\ fills \in 0..MaxFills

\* ------------------------------------------------------------- properties
\* market i's iteration of the for loop is over
Processed(i) == i < idx

\* the base lookups (line 62) that returned both asks
CompleteBase == { l \in lookups : l.role = "base" /\ l.asks.yes.some /\ l.asks.no.some }

\* positions in a result list of the entries made from market i
EntriesOf(list, i) == { k \in 1..Len(list) : list[k].src = i }

\* C1: for every market whose base lookup returned both asks, the spread
\* list holds exactly one entry for it if yesAsk + noAsk < 1 - threshold and
\* none otherwise, and that entry's Total Cost is yesAsk + noAsk and its
\* Profit % is (1 - (yesAsk + noAsk)) * 100.
C1_SpreadIff ==
  \A l \in CompleteBase :
    LET cost == l.asks.yes.v + l.asks.no.v
        E == EntriesOf(spread_arbs, l.m)
    IN /\ (cost < 100 - param.spread_threshold) => Cardinality(E) = 1
       /\ ~(cost < 100 - param.spread_threshold) => E = {}
       /\ \A k \in E : /\ spread_arbs[k].Total_Cost = cost
                       /\ spread_arbs[k].Profit_pct = 100 - cost

\* a finished scan with one market that produced a spread entry and one
\* complete market at the boundary yesAsk + noAsk = 1 - threshold without one
C1_Witness ==
  /\ pc = "done"
  /\ \E l \in CompleteBase :
       /\ l.asks.yes.v + l.asks.no.v < 100 - param.spread_threshold
       /\ Cardinality(EntriesOf(spread_arbs, l.m)) = 1
  /\ \E l \in CompleteBase :
       /\ l.asks.yes.v + l.asks.no.v = 100 - param.spread_threshold
       /\ EntriesOf(spread_arbs, l.m) = {}

\* C2: every combinatorial entry's Profit % is the larger of the two implied
\* profits of its base and linked asks.
C2_ComboProfitIsLarger ==
  \A k \in 1..Len(combo_arbs) :
    LET e == combo_arbs[k]
    IN e.Profit_pct = Larger(100 - (e.yes + e.lno), 100 - (e.no + e.lyes))

\* C3: no spread, combinatorial or near-certain entry has a negative Profit %.
C3_ProfitNonNegative ==
  /\ \A k \in 1..Len(spread_arbs) : spread_arbs[k].Profit_pct >= 0
  /\ \A k \in 1..Len(combo_arbs) : combo_arbs[k].Profit_pct >= 0
  /\ \A k \in 1..Len(near_certain_opps) : near_certain_opps[k].Profit_pct >= 0

\* market i is incomplete at the start of the scan: not exactly two token
\* ids, a failing quote lookup, or an order book without asks
IncompleteAtStart(i) ==
  LET c == record(i).clobTokenIds
  IN \/ c.kind # "list"
     \/ Len(c.ids) # 2
     \/ \E t \in {c.ids[1], c.ids[2]} :
          venue0(i)[t].status # HttpOk \/ venue0(i)[t].asks = {}

\* C4: a market that is incomplete yields no entry of any kind, neither as
\* the market of a spread, near-certain or ambiguity entry nor as base or
\* linked market of a combinatorial entry.
C4_IncompleteYieldsNothing ==
  \A i \in 1..Len(markets) :
    IncompleteAtStart(i) =>
      /\ EntriesOf(spread_arbs, i) = {}
      /\ EntriesOf(near_certain_opps, i) = {}
      /\ EntriesOf(rules_arbs, i) = {}
      /\ \A k \in 1..Len(combo_arbs) : combo_arbs[k].base # i /\ combo_arbs[k].linked # i

\* a finished scan in which a market with asks on one side only was looked
\* up as base and as linked market, and another market produced entries
C4_Witness ==
  /\ pc = "done"
  /\ \E i \in 1..Len(markets) :
       /\ record(i).clobTokenIds = TwoTokens
       /\ venue0(i)["Y"].status = HttpOk /\ venue0(i)["N"].status = HttpOk
       /\ venue0(i)["Y"].asks # {} /\ venue0(i)["N"].asks = {}
       /\ \E a, b \in lookups : a.m = i /\ b.m = i /\ a.role = "base" /\ b.role = "linked"
  /\ Len(spread_arbs) + Len(near_certain_opps) + Len(rules_arbs) > 0

\* C5: for every processed market whose base lookup returned both asks, the
\* near-certain list holds exactly one entry for it if yesAsk <= 1 - certainty
\* or noAsk <= 1 - certainty and none otherwise; the entry's Cheap Side is a
\* side whose ask is <= 1 - certainty, Price is that ask and Profit % is
\* (1 - Price) * 100.
C5_NearCertainIff ==
  \A l \in CompleteBase :
    Processed(l.m) =>
      LET y == l.asks.yes.v
          n == l.asks.no.v
          cut == 100 - param.near_certain
          E == EntriesOf(near_certain_opps, l.m)
      IN /\ (y <= cut \/ n <= cut) => Cardinality(E) = 1
         /\ ~(y <= cut \/ n <= cut) => E = {}
         /\ \A k \in E :
              LET e == near_certain_opps[k]
              IN /\ e.Cheap_Side \in {"YES", "NO"}
                 /\ e.Cheap_Side = "YES" => (y <= cut /\ e.Price = y)
                 /\ e.Cheap_Side = "NO" => (n <= cut /\ e.Price = n)
                 /\ e.Profit_pct = 100 - e.Price

\* a finished scan with a market whose two sides both qualify, its yes ask
\* being exactly 1 - certainty, and a market where only the yes side
\* qualifies, each with its entry
C5_Witness ==
  /\ pc = "done"
  /\ \E l \in CompleteBase :
       /\ l.asks.yes.v = 100 - param.near_certain
       /\ l.asks.no.v < 100 - param.near_certain
       /\ Cardinality(EntriesOf(near_certain_opps, l.m)) = 1
  /\ \E l \in CompleteBase :
       /\ l.asks.yes.v < 100 - param.near_certain
       /\ l.asks.no.v > 100 - param.near_certain
       /\ Cardinality(EntriesOf(near_certain_opps, l.m)) = 1

\* the keywords that occur in the question when letter case is ignored
occurring_words(words, q) ==
  { k \in 1..Len(words) : contains(lower(q), lower(words[k])) }

RECURSIVE pick(_, _, _)
\* the words at the positions of K, in order, from position k on
pick(words, K, k) ==
  IF k > Len(words) THEN <<>>
  ELSE (IF k \in K THEN <<words[k]>> ELSE <<>>) \o pick(words, K, k + 1)

\* C6: for every processed market with a complete snapshot, the ambiguity
\* list holds exactly one entry for it if a keyword occurs in its question
\* as a case-insensitive substring and none otherwise, and the entry lists
\* exactly the keywords that occur, whatever the case of question and keywords.
C6_KeywordsCaseInsensitive ==
  \A l \in CompleteBase :
    Processed(l.m) =>
      LET q == record(l.m).question.text
          K == occurring_words(param.rules_keywords, q)
          E == EntriesOf(rules_arbs, l.m)
      IN /\ K # {} => Cardinality(E) = 1
         /\ K = {} => E = {}
         /\ \A k \in E :
              rules_arbs[k].Potential_Ambiguity = join(pick(param.rules_keywords, K, 1))

\* C7: the combinatorial list never holds two entries for the same
\* base/linked pair of markets.
C7_NoDuplicateCombo ==
  \A j, k \in 1..Len(combo_arbs) :
    (j # k) => ~(combo_arbs[j].base = combo_arbs[k].base
                 /\ combo_arbs[j].linked = combo_arbs[k].linked)

\* C8: the scan never raises.
C8_NeverRaises == pc # "raised"

\* C9: every price pair obtained for one market during one scan is the same.
C9_FixedSnapshot ==
  \A a, b \in lookups :
    (a.m = b.m /\ a.asks.yes.some /\ b.asks.yes.some) => a.asks = b.asks

\* C10: no combinatorial entry has the same market as base and as linked
\* market.
C10_NoSelfMatch ==
  \A k \in 1..Len(combo_arbs) : combo_arbs[k].base # combo_arbs[k].linked

\* a finished scan with a combinatorial entry, made after the base market's
\* own question was passed over as a candidate
C10_Witness ==
  /\ pc = "done"
  /\ \E k \in 1..Len(combo_arbs) :
       /\ combo_arbs[k].base # combo_arbs[k].linked
       /\ \E j \in 1..Len(questions) :
            lower(questions[j]) = combo_arbs[k].Base_Question

====
